---- MODULE Spec2Model ----
(***************************************************************************)
(* Model of lintbot's FetchParallel dispatcher                             *)
(* (src/lib/helpers/FetchParallel.js): a waiting queue, a table of pending *)
(* attempts keyed by job id, one timer and one abort token per attempt,    *)
(* the retry policy, the error list and the yield promise (drain barrier). *)
(*                                                                         *)
(* The dispatcher runs on the JavaScript event loop: every handler (add,   *)
(* the .then/.catch callbacks of a job's promise, a timer callback) runs   *)
(* to completion, so each handler is one atomic action.  Jobs are opaque   *)
(* functions; the environment submits jobs of a few kinds that fix what    *)
(* each invocation of the job does.                                        *)
(***************************************************************************)
EXTENDS Integers, Sequences, FiniteSets, TLC

\* ---------------------------------------------------------------- bounds
MaxJobs == 3      \* jobs submitted with add over a run

\* ----------------------------------------------------- constructor options
Limits == {1, 2}          \* values of options.limit
RetryLimits == {0, 1, 2}  \* values of options.retry

Null == 0         \* the value null of yieldPromise, timeoutId, abortController

\* ------------------------------------------------------- the environment
\* What a submitted job function does when it is invoked:
\*   ok      resolves before the attempt's timer fires
\*   errN    rejects with an error for which shouldRetry is false
\*   errR    rejects with an error for which shouldRetry is true
\*   flaky   rejects like errR on its first invocation, resolves afterwards
\*   hang    never settles before the timer; observes the abort signal and
\*           stays silent afterwards (the resolveJob of the class example)
\*   late    never settles before the timer; ignores the abort signal and
\*           resolves afterwards
\*   abort   never settles before the timer; rejects with an AbortError once
\*           the signal is aborted (fetch with { signal } in the vcp clients)
\*   parent  resolves before the timer and may call add for a child job
\*           from inside its run (the jobs of lintbot.js)
JobKinds == {"ok", "errN", "errR", "flaky", "hang", "late", "abort", "parent"}
ChildKinds == {"ok"}

\* The kinds of jobs an application submits to one dispatcher.
Workloads ==
  { {"ok", "errN", "errR", "flaky"},
    {"ok", "errN", "hang", "late"},
    {"ok", "hang", "late", "abort"},
    {"ok", "parent", "errN", "hang"} }

Behaviour(kind, call) ==
  CASE kind = "ok"     -> "ok"
    [] kind = "parent" -> "ok"
    [] kind = "errN"   -> "errN"
    [] kind = "errR"   -> "errR"
    [] kind = "flaky"  -> IF call = 1 THEN "errR" ELSE "ok"
    [] kind = "hang"   -> "slow"
    [] kind = "late"   -> "slowOk"
    [] kind = "abort"  -> "slowErr"

VARIABLES
  limit,              \* options.limit
  retryLimit,         \* options.retry
  shouldRetryTimeout, \* value of options.shouldRetry on a TimeoutError
  waitingJobs,        \* this.waitingJobs: array of job functions
  pendingJobs,        \* this.pendingJobs: job id -> record
  jobIdCounter,       \* this.jobIdCounter
  yieldPromise,       \* this.yieldPromise (with yieldResolve, yieldReject)
  yieldErrors,        \* this.yieldErrors
  promises,           \* every promise created by add: its state and value
  timers,             \* live setTimeout timers, one per (job id, attempt)
  inflight,           \* promises returned by job.fn that have not settled
  added,              \* kind of the n-th job passed to add
  calls,              \* number of invocations of the n-th job function
  parent,             \* job whose run submitted the n-th job (0: the caller)
  epoch,              \* value of yieldPromise when add(n) returned
  failures,           \* every error that was not retried, with the promise then
                      \* current and its rank among these errors
  unhandled,          \* an invariant violation escaped as unhandled rejection
  pc                  \* where the lintbot function stands, "none" when the
                      \* dispatcher is driven by another caller

vars == <<limit, retryLimit, shouldRetryTimeout, waitingJobs, pendingJobs,
          jobIdCounter, yieldPromise, yieldErrors, promises, timers, inflight,
          added, calls, parent, epoch, failures, unhandled, pc>>

config == <<limit, retryLimit, shouldRetryTimeout>>

\* ------------------------------------------------------------- helpers
Last(s) == s[Len(s)]
Front(s) == SubSeq(s, 1, Len(s) - 1)

\* The dispatcher's mutable state with the event loop's timers and promises,
\* as one record, so that a handler and the methods it calls compose.
D ==
  [waitingJobs |-> waitingJobs, pendingJobs |-> pendingJobs,
   jobIdCounter |-> jobIdCounter, yieldPromise |-> yieldPromise,
   yieldErrors |-> yieldErrors, promises |-> promises, timers |-> timers,
   inflight |-> inflight, calls |-> calls, failures |-> failures,
   unhandled |-> unhandled]

Commit(d) ==
  /\ waitingJobs' = d.waitingJobs
  /\ pendingJobs' = d.pendingJobs
  /\ jobIdCounter' = d.jobIdCounter
  /\ yieldPromise' = d.yieldPromise
  /\ yieldErrors' = d.yieldErrors
  /\ promises' = d.promises
  /\ timers' = d.timers
  /\ inflight' = d.inflight
  /\ calls' = d.calls
  /\ failures' = d.failures
  /\ unhandled' = d.unhandled

pendingJobsCount(d) == Cardinality(DOMAIN d.pendingJobs)
waitingJobsCount(d) == Len(d.waitingJobs)

\* options.shouldRetry: lintbot retries timeouts and 5xx responses
ShouldRetry(err) ==
  \/ err.kind = "timeout" /\ shouldRetryTimeout
  \/ err.kind = "errR"

TimeoutError(job) == [kind |-> "timeout", fn |-> job.fn, id |-> job.id, attempt |-> job.retry]
JobError(p) ==
  [kind |-> IF Behaviour(added[p.fn], p.call) = "slowErr"
              THEN "abort" ELSE Behaviour(added[p.fn], p.call),
   fn |-> p.fn, id |-> p.id, attempt |-> p.attempt]

\* ------------------------------------------------------ the dispatcher
\* takes the job from the front of the array (shift), the one added last
dispatch_TakesNewest(d, jobId) ==
  LET d1 == IF jobId \notin DOMAIN d.pendingJobs
              THEN [d EXCEPT
                      !.pendingJobs =
                         [i \in DOMAIN @ \cup {jobId} |->
                            IF i = jobId
                              THEN [id |-> jobId, fn |-> Head(d.waitingJobs), retry |-> 0,
                                    timeoutId |-> Null, abortController |-> Null]
                              ELSE @[i]],
                      !.waitingJobs = Tail(@)]
              ELSE d
      job == d1.pendingJobs[jobId]
      r == job.retry + 1
  IN [d1 EXCEPT
        !.pendingJobs[jobId] = [job EXCEPT !.retry = r, !.timeoutId = r, !.abortController = r],
        !.timers = @ \cup {[id |-> jobId, attempt |-> r]},
        !.calls[job.fn] = @ + 1,
        !.inflight = @ \cup {[id |-> jobId, fn |-> job.fn, attempt |-> r,
                              call |-> d1.calls[job.fn] + 1,
                              aborted |-> FALSE, reason |-> <<>>,
                              spawned |-> FALSE]}]

dispatch(d, jobId) ==
  LET d1 == IF jobId \notin DOMAIN d.pendingJobs
              THEN [d EXCEPT
                      !.pendingJobs =
                         [i \in DOMAIN @ \cup {jobId} |->
                            IF i = jobId
                              THEN [id |-> jobId, fn |-> Last(d.waitingJobs), retry |-> 0,
                                    timeoutId |-> Null, abortController |-> Null]
                              ELSE @[i]],
                      !.waitingJobs = Front(@)]
              ELSE d
      job == d1.pendingJobs[jobId]
      r == job.retry + 1
  IN [d1 EXCEPT
        !.pendingJobs[jobId] = [job EXCEPT !.retry = r, !.timeoutId = r, !.abortController = r],
        !.timers = @ \cup {[id |-> jobId, attempt |-> r]},
        !.calls[job.fn] = @ + 1,
        !.inflight = @ \cup {[id |-> jobId, fn |-> job.fn, attempt |-> r,
                              call |-> d1.calls[job.fn] + 1,
                              aborted |-> FALSE, reason |-> <<>>,
                              spawned |-> FALSE]}]

\* settles the promise but leaves the errors of the epoch in the list
settle_KeepsErrors(d) ==
  [d EXCEPT
     !.promises[d.yieldPromise] =
        IF Len(d.yieldErrors) = 0
          THEN [state |-> "resolved", value |-> <<>>]
          ELSE [state |-> "rejected", value |-> d.yieldErrors],
     !.yieldPromise = Null]

\* The branch of tryDispatch that settles the promise of the epoch.
settle(d) ==
  [d EXCEPT
     !.promises[d.yieldPromise] =
        IF Len(d.yieldErrors) = 0
          THEN [state |-> "resolved", value |-> <<>>]
          ELSE [state |-> "rejected", value |-> d.yieldErrors],
     !.yieldPromise = Null,
     !.yieldErrors = <<>>]

\* The ways tryDispatch could be wrong that the properties below must detect.
\* newJobId returns the counter without moving it
tryDispatch_ReusesId(d) ==
  IF waitingJobsCount(d) > 0 /\ pendingJobsCount(d) < limit
    THEN dispatch(d, d.jobIdCounter)
    ELSE IF pendingJobsCount(d) = 0 /\ d.yieldPromise # Null THEN settle(d) ELSE d

\* admits while pendingJobsCount <= limit
tryDispatch_OffByOne(d) ==
  IF waitingJobsCount(d) > 0 /\ pendingJobsCount(d) <= limit
    THEN dispatch([d EXCEPT !.jobIdCounter = @ + 1], d.jobIdCounter)
    ELSE IF pendingJobsCount(d) = 0 /\ d.yieldPromise # Null THEN settle(d) ELSE d

\* a plain else: settles without looking at pendingJobsCount
tryDispatch_NoPendingCheck(d) ==
  IF waitingJobsCount(d) > 0 /\ pendingJobsCount(d) < limit
    THEN dispatch([d EXCEPT !.jobIdCounter = @ + 1], d.jobIdCounter)
    ELSE IF d.yieldPromise # Null THEN settle(d) ELSE d

\* rejects with the first error only
tryDispatch_FirstErrorOnly(d) ==
  IF waitingJobsCount(d) > 0 /\ pendingJobsCount(d) < limit
    THEN dispatch([d EXCEPT !.jobIdCounter = @ + 1], d.jobIdCounter)
    ELSE IF pendingJobsCount(d) = 0 /\ d.yieldPromise # Null
      THEN [settle(d) EXCEPT !.promises[d.yieldPromise].value =
                               IF Len(@) > 0 THEN <<@[1]>> ELSE @]
      ELSE d

tryDispatch(d) ==
  IF waitingJobsCount(d) > 0 /\ pendingJobsCount(d) < limit
    THEN dispatch([d EXCEPT !.jobIdCounter = @ + 1], d.jobIdCounter)
    ELSE IF pendingJobsCount(d) = 0
      THEN IF d.yieldPromise # Null
        THEN settle(d)
        ELSE d
      ELSE d

\* creates a new promise on every call
add_AlwaysFresh(d, job) ==
  LET d1 == [d EXCEPT
               !.promises = Append(@, [state |-> "pending", value |-> <<>>]),
               !.yieldPromise = Len(d.promises) + 1,
               !.yieldErrors = <<>>]
  IN tryDispatch([d1 EXCEPT !.waitingJobs = <<job>> \o @])

\* queues the job without running the dispatch step
add_NoDispatch(d, job) ==
  LET d1 == IF waitingJobsCount(d) = 0 /\ pendingJobsCount(d) = 0
              THEN [d EXCEPT
                      !.promises = Append(@, [state |-> "pending", value |-> <<>>]),
                      !.yieldPromise = Len(d.promises) + 1,
                      !.yieldErrors = <<>>]
              ELSE d
  IN [d1 EXCEPT !.waitingJobs = <<job>> \o @]

\* opens a new epoch whenever nothing is waiting, pending jobs or not
add_IgnoresPending(d, job) ==
  LET d1 == IF waitingJobsCount(d) = 0
              THEN [d EXCEPT
                      !.promises = Append(@, [state |-> "pending", value |-> <<>>]),
                      !.yieldPromise = Len(d.promises) + 1,
                      !.yieldErrors = <<>>]
              ELSE d
  IN tryDispatch([d1 EXCEPT !.waitingJobs = <<job>> \o @])

add(d, job) ==
  LET d1 == IF waitingJobsCount(d) = 0 /\ pendingJobsCount(d) = 0
              THEN [d EXCEPT
                      !.promises = Append(@, [state |-> "pending", value |-> <<>>]),
                      !.yieldPromise = Len(d.promises) + 1,
                      !.yieldErrors = <<>>]
              ELSE d
  IN tryDispatch([d1 EXCEPT !.waitingJobs = <<job>> \o @])

\* yield() returns this.yieldPromise and changes nothing.
yield(d) == d.yieldPromise

clearTimeout(d, jobId) ==
  [d EXCEPT !.timers = @ \ {[id |-> jobId, attempt |-> d.pendingJobs[jobId].timeoutId]}]

\* leaves the timer of the attempt running
resolve_KeepsTimer(d, jobId) ==
  tryDispatch([d EXCEPT !.pendingJobs = [i \in DOMAIN @ \ {jobId} |-> @[i]]])

\* removes the record but does not run the dispatch step
resolve_NoDispatch(d, jobId) ==
  LET d1 == clearTimeout(d, jobId)
  IN [d1 EXCEPT !.pendingJobs = [i \in DOMAIN @ \ {jobId} |-> @[i]]]

resolve(d, jobId) ==
  LET d1 == clearTimeout(d, jobId)
  IN tryDispatch([d1 EXCEPT !.pendingJobs = [i \in DOMAIN @ \ {jobId} |-> @[i]]])

\* retries without consulting shouldRetry
reject_IgnoresPolicy(d, jobId, err) ==
  LET d1 == clearTimeout(d, jobId)
      job == d1.pendingJobs[jobId]
  IN IF job.retry < retryLimit
       THEN dispatch(d1, jobId)
       ELSE [d1 EXCEPT !.yieldErrors = Append(@, err),
                       !.failures = @ \cup {[err |-> err, epoch |-> d.yieldPromise,
                                            seq |-> Cardinality(@) + 1]}]

\* records the error of an attempt that is retried as well
reject_RecordsRetried(d, jobId, err) ==
  LET d1 == clearTimeout(d, jobId)
      job == d1.pendingJobs[jobId]
  IN IF ShouldRetry(err) /\ job.retry < retryLimit
       THEN [dispatch(d1, jobId) EXCEPT !.yieldErrors = Append(@, err)]
       ELSE [d1 EXCEPT !.yieldErrors = Append(@, err),
                       !.failures = @ \cup {[err |-> err, epoch |-> d.yieldPromise,
                                            seq |-> Cardinality(@) + 1]}]

\* puts the error at the front of the list, as add does with a job
reject_Prepends(d, jobId, err) ==
  LET d1 == clearTimeout(d, jobId)
      job == d1.pendingJobs[jobId]
  IN IF ShouldRetry(err) /\ job.retry < retryLimit
       THEN dispatch(d1, jobId)
       ELSE [d1 EXCEPT !.yieldErrors = <<err>> \o @,
                       !.failures = @ \cup {[err |-> err, epoch |-> d.yieldPromise,
                                            seq |-> Cardinality(@) + 1]}]

reject(d, jobId, err) ==
  LET d1 == clearTimeout(d, jobId)
      job == d1.pendingJobs[jobId]
  IN IF ShouldRetry(err) /\ job.retry < retryLimit
       THEN dispatch(d1, jobId)
       ELSE [d1 EXCEPT !.yieldErrors = Append(@, err),
                       !.failures = @ \cup {[err |-> err, epoch |-> d.yieldPromise,
                                            seq |-> Cardinality(@) + 1]}]

\* consults the policy first and aborts job.abortController afterwards
timeout_AbortsLast(d, jobId) ==
  LET job == d.pendingJobs[jobId]
      err == TimeoutError(job)
      d1 == IF ShouldRetry(err) /\ job.retry < retryLimit
              THEN dispatch(d, jobId)
              ELSE [d EXCEPT !.yieldErrors = Append(@, err),
                             !.failures = @ \cup {[err |-> err, epoch |-> d.yieldPromise,
                                                  seq |-> Cardinality(@) + 1]}]
  IN [d1 EXCEPT !.inflight =
        {IF p.id = jobId /\ p.attempt = d1.pendingJobs[jobId].abortController
           THEN [p EXCEPT !.aborted = TRUE, !.reason = <<err>>] ELSE p : p \in @}]

\* retries a retriable timeout whatever the attempt count
timeout_IgnoresLimit(d, jobId) ==
  LET job == d.pendingJobs[jobId]
      err == TimeoutError(job)
      d1 == [d EXCEPT !.inflight =
               {IF p.id = jobId /\ p.attempt = job.abortController
                  THEN [p EXCEPT !.aborted = TRUE, !.reason = <<err>>] ELSE p : p \in @}]
  IN IF ShouldRetry(err)
       THEN dispatch(d1, jobId)
       ELSE [d1 EXCEPT !.yieldErrors = Append(@, err),
                       !.failures = @ \cup {[err |-> err, epoch |-> d.yieldPromise,
                                            seq |-> Cardinality(@) + 1]}]

timeout(d, jobId) ==
  LET job == d.pendingJobs[jobId]
      err == TimeoutError(job)
      d1 == [d EXCEPT !.inflight =
               {IF p.id = jobId /\ p.attempt = job.abortController
                  THEN [p EXCEPT !.aborted = TRUE, !.reason = <<err>>] ELSE p : p \in @}]
  IN IF ShouldRetry(err) /\ job.retry < retryLimit
       THEN dispatch(d1, jobId)
       ELSE [d1 EXCEPT !.yieldErrors = Append(@, err),
                       !.failures = @ \cup {[err |-> err, epoch |-> d.yieldPromise,
                                            seq |-> Cardinality(@) + 1]}]

\* invariant(typeof job === 'object', ...) of resolve and reject throws for a
\* job id that is not pending.  Thrown in the .then callback it is passed to
\* the .catch callback, where reject throws it again: the chained promise is
\* rejected with nobody listening.
invariantViolation(d) == [d EXCEPT !.unhandled = TRUE]

\* --------------------------------------------------------------- actions
Init ==
  /\ limit \in Limits
  /\ retryLimit \in RetryLimits
  /\ shouldRetryTimeout \in BOOLEAN
  /\ waitingJobs = <<>>
  /\ pendingJobs = <<>>
  /\ jobIdCounter = 0
  /\ yieldPromise = Null
  /\ yieldErrors = <<>>
  /\ promises = <<>>
  /\ timers = {}
  /\ inflight = {}
  /\ added = <<>>
  /\ calls = [n \in 1..MaxJobs |-> 0]
  /\ parent = <<>>
  /\ epoch = <<>>
  /\ failures = {}
  /\ unhandled = FALSE
  /\ pc = "none"

\* The caller submits a job of kind k.
Add(k) ==
  /\ Len(added) < MaxJobs
  /\ \E w \in Workloads : {added[i] : i \in DOMAIN added} \cup {k} \subseteq w
  /\ LET d == add(D, Len(added) + 1)
     IN /\ Commit(d)
        /\ epoch' = Append(epoch, d.yieldPromise)
  /\ added' = Append(added, k)
  /\ parent' = Append(parent, 0)
  /\ UNCHANGED <<config, pc>>

\* A running parent job submits a child job of kind k from inside its run.
Spawn(p, k) ==
  /\ p \in inflight
  /\ added[p.fn] = "parent"
  /\ ~p.spawned
  /\ Len(added) < MaxJobs
  /\ LET d0 == [D EXCEPT !.inflight = (@ \ {p}) \cup {[p EXCEPT !.spawned = TRUE]}]
         d == add(d0, Len(added) + 1)
     IN /\ Commit(d)
        /\ epoch' = Append(epoch, d.yieldPromise)
  /\ added' = Append(added, k)
  /\ parent' = Append(parent, p.fn)
  /\ UNCHANGED <<config, pc>>

\* An attempt's own timer is still running.
TimerLive(p) == [id |-> p.id, attempt |-> p.attempt] \in timers
Outcome(p) == Behaviour(added[p.fn], p.call)
Slow(p) == Outcome(p) \in {"slow", "slowOk", "slowErr"}

\* The promise returned by job.fn resolves: .then(() => this.resolve(jobId))
JobResolves(p) ==
  /\ p \in inflight
  /\ \/ Outcome(p) = "ok"
     \/ Outcome(p) = "slowOk" /\ ~TimerLive(p)
  /\ LET d0 == [D EXCEPT !.inflight = @ \ {p}]
     IN Commit(IF p.id \in DOMAIN pendingJobs
                 THEN resolve(d0, p.id)
                 ELSE invariantViolation(d0))
  /\ UNCHANGED <<config, added, parent, epoch, pc>>

\* The promise returned by job.fn rejects: .catch(err => this.reject(jobId, err))
JobRejects(p) ==
  /\ p \in inflight
  /\ \/ Outcome(p) \in {"errN", "errR"}
     \/ Outcome(p) = "slowErr" /\ ~TimerLive(p)
  /\ LET d0 == [D EXCEPT !.inflight = @ \ {p}]
     IN Commit(IF p.id \in DOMAIN pendingJobs
                 THEN reject(d0, p.id, JobError(p))
                 ELSE invariantViolation(d0))
  /\ UNCHANGED <<config, added, parent, epoch, pc>>

\* The timer of an attempt fires: () => this.timeout(jobId, job.retry)
TimerFires(t) ==
  /\ t \in timers
  /\ \E p \in inflight : p.id = t.id /\ p.attempt = t.attempt /\ Slow(p)
  /\ Commit(timeout([D EXCEPT !.timers = @ \ {t}], t.id))
  /\ UNCHANGED <<config, added, parent, epoch, pc>>

Next ==
  \/ \E k \in JobKinds : Add(k)
  \/ \E p \in inflight : \E k \in ChildKinds : Spawn(p, k)
  \/ \E p \in inflight : JobResolves(p)
  \/ \E p \in inflight : JobRejects(p)
  \/ \E t \in timers : TimerFires(t)

Spec == Init /\ [][Next]_vars

\* The event loop runs every callback that is ready: a settled promise's
\* reaction and an expired timer's callback are eventually executed.
Fairness ==
  /\ WF_vars(\E p \in inflight : JobResolves(p))
  /\ WF_vars(\E p \in inflight : JobRejects(p))
  /\ WF_vars(\E t \in timers : TimerFires(t))

FairSpec == Spec /\ Fairness

\* The run in which only jobs that succeed are submitted.
OkNext ==
  \/ Add("ok")
  \/ \E p \in inflight : JobResolves(p)

OkSpec == Init /\ [][OkNext]_vars /\ WF_vars(\E p \in inflight : JobResolves(p))

\* ------------------------------------------------------ the lintbot run
\* lintbot() creates one dispatcher, submits the job that fetches the ids of
\* the old suggestions (it adds one delete job per id from inside its run),
\* awaits yield(), submits the job that fetches the file paths (it adds one
\* job per file, which adds one job per suggestion), awaits yield() again and
\* returns 0.
MaxLintbotJobs == 4   \* jobs submitted over one lintbot run

\* What the requests of a lintbot job do.  request() takes the signal off the
\* client with its first fetch, so a job that is timed out in a later fetch
\* goes on and resolves (late); one that is timed out in its first fetch
\* rejects with an AbortError (abort).
LintbotKinds == {"ok", "late", "abort"}

\* Number of jobs between job n and the lintbot function in the chain of adds.
RECURSIVE Depth(_)
Depth(n) == IF parent[n] = 0 THEN 0 ELSE Depth(parent[n]) + 1

\* The job submitted by the lintbot function from which job n descends.
RECURSIVE Root(_)
Root(n) == IF parent[n] = 0 THEN n ELSE Root(parent[n])

\* The first job submitted is the one of the first phase.
Phase(n) == IF Root(n) = 1 THEN 1 ELSE 2

\* Job n adds jobs from inside its run: fetch ids, fetch file paths, fetch file.
AddsJobs(n) == Depth(n) = 0 \/ (Phase(n) = 2 /\ Depth(n) = 1)

LintbotInit ==
  /\ limit \in Limits
  /\ retryLimit \in RetryLimits
  /\ shouldRetryTimeout = TRUE
  /\ waitingJobs = <<>>
  /\ pendingJobs = <<>>
  /\ jobIdCounter = 0
  /\ yieldPromise = Null
  /\ yieldErrors = <<>>
  /\ promises = <<>>
  /\ timers = {}
  /\ inflight = {}
  /\ added = <<>>
  /\ calls = [n \in 1..MaxLintbotJobs |-> 0]
  /\ parent = <<>>
  /\ epoch = <<>>
  /\ failures = {}
  /\ unhandled = FALSE
  /\ pc = "start"

\* dispatcher.add(job); await dispatcher.yield(): the lintbot function submits
\* the job of a phase and is suspended on the promise yield() returns.
Submit(from, to, k) ==
  /\ pc = from
  /\ Len(added) < MaxLintbotJobs
  /\ LET d == add(D, Len(added) + 1)
     IN /\ Commit(d)
        /\ epoch' = Append(epoch, yield(d))
  /\ added' = Append(added, k)
  /\ parent' = Append(parent, 0)
  /\ pc' = to
  /\ UNCHANGED config

\* The promise the lintbot function is suspended on: the one yield() returned
\* right after the last add of the function itself.
Awaited == epoch[CHOOSE n \in DOMAIN added :
                   parent[n] = 0 /\ \A m \in DOMAIN added : parent[m] = 0 => m <= n]

\* The first await is over: the function goes on with the second phase.
Phase2(k) ==
  /\ pc = "await1"
  /\ promises[Awaited].state = "resolved"
  /\ Submit("await1", "await2", k)

\* An await ends with the rejection of the promise: lintbot() rethrows.
Throws ==
  /\ pc \in {"await1", "await2"}
  /\ promises[Awaited].state = "rejected"
  /\ pc' = "threw"
  /\ UNCHANGED <<config, waitingJobs, pendingJobs, jobIdCounter, yieldPromise,
                 yieldErrors, promises, timers, inflight, added, calls, parent,
                 epoch, failures, unhandled>>

\* The second await is over: afterSuggestionsEnd is awaited, a request that
\* succeeds or fails, and then the function returns 0.
Returns ==
  /\ pc = "await2"
  /\ promises[Awaited].state = "resolved"
  /\ pc' \in {"returned", "threw"}
  /\ UNCHANGED <<config, waitingJobs, pendingJobs, jobIdCounter, yieldPromise,
                 yieldErrors, promises, timers, inflight, added, calls, parent,
                 epoch, failures, unhandled>>

\* forEach(... dispatcher.add(...)) at the end of a job's run: an attempt that
\* got its answer adds a job for an element of it.
Enqueue(p, k) ==
  /\ p \in inflight
  /\ AddsJobs(p.fn)
  /\ ~p.spawned
  /\ \/ Outcome(p) = "ok"
     \/ Outcome(p) = "slowOk" /\ ~TimerLive(p)
  /\ Len(added) < MaxLintbotJobs
  /\ LET d0 == [D EXCEPT !.inflight = (@ \ {p}) \cup {[p EXCEPT !.spawned = TRUE]}]
         d == add(d0, Len(added) + 1)
     IN /\ Commit(d)
        /\ epoch' = Append(epoch, yield(d))
  /\ added' = Append(added, k)
  /\ parent' = Append(parent, p.fn)
  /\ UNCHANGED <<config, pc>>

LintbotNext ==
  \/ \E k \in LintbotKinds : Submit("start", "await1", k)
  \/ \E k \in LintbotKinds : Phase2(k)
  \/ Throws
  \/ Returns
  \/ \E p \in inflight : \E k \in LintbotKinds : Enqueue(p, k)
  \/ \E p \in inflight : JobResolves(p)
  \/ \E p \in inflight : JobRejects(p)
  \/ \E t \in timers : TimerFires(t)

LintbotSpec == LintbotInit /\ [][LintbotNext]_vars

\* ------------------------------------------------------------ properties
Range(s) == {s[i] : i \in DOMAIN s}
Jobs == 1..Len(added)

\* Nothing is running and nothing is queued: every attempt that was started
\* has settled, no timer is left and no job waits.
Quiescent == inflight = {} /\ timers = {} /\ waitingJobs = <<>>

\* Job n is in the waiting queue or has a pending record.
Waiting(n) == n \in Range(waitingJobs)
Pending(n) == \E id \in DOMAIN pendingJobs : pendingJobs[id].fn = n

\* The errors of job n that were delivered or are about to be.
Recorded(n) ==
  \/ \E e \in Range(yieldErrors) : e.fn = n
  \/ \E h \in DOMAIN promises :
       promises[h].state = "rejected" /\ \E e \in Range(promises[h].value) : e.fn = n

\* C1: the number of pending records never exceeds limit.
C1_PendingWithinLimit == pendingJobsCount(D) <= limit

\* limit jobs are pending, one of them on a retry, and another job is held back
C1_Witness ==
  /\ limit = 2
  /\ pendingJobsCount(D) = limit
  /\ waitingJobsCount(D) > 0
  /\ \E id \in DOMAIN pendingJobs : pendingJobs[id].retry > 1

\* C2: when only succeeding jobs are submitted, every promise created by add
\* is eventually resolved, in a state with nothing pending and nothing waiting.
C2_YieldResolves ==
  \A h \in 1..(MaxJobs + 1) :
    (yieldPromise = h) ~>
      (/\ h \in DOMAIN promises
       /\ promises[h].state = "resolved"
       /\ pendingJobsCount(D) = 0
       /\ waitingJobsCount(D) = 0)

\* three jobs ran under limit 1 and the promise of their epoch is resolved
C2_Witness ==
  /\ limit = 1
  /\ Len(added) = 3
  /\ \A n \in Jobs : added[n] = "ok" /\ epoch[n] = 1 /\ calls[n] = 1
  /\ promises[1].state = "resolved"
  /\ pendingJobsCount(D) = 0 /\ waitingJobsCount(D) = 0

\* C3 (as claimed): once everything that was started has finished, the promise
\* of an epoch in which an error was not retried is settled, as a rejection.
C3_Claim ==
  Quiescent =>
    \A f \in failures : f.epoch # Null /\ promises[f.epoch].state = "rejected"

\* C4 (as claimed): a job whose attempts all time out, timeouts being
\* retried, has been invoked retryLimit + 1 times when it has failed, and has
\* exactly one error in the list.
C4_Claim ==
  \A n \in Jobs :
    (added[n] = "hang" /\ shouldRetryTimeout /\ \E f \in failures : f.err.fn = n) =>
      /\ calls[n] = retryLimit + 1
      /\ Cardinality({i \in DOMAIN yieldErrors : yieldErrors[i].fn = n}) = 1

\* C5: a settled promise is resolved exactly if no error of its epoch was left
\* unretried, and a rejected one carries every such error of its epoch.
C5_SettlesWithAllErrors ==
  \A h \in DOMAIN promises :
    LET errs == {f.err : f \in {g \in failures : g.epoch = h}}
    IN promises[h].state # "pending" =>
         /\ promises[h].state = "resolved" <=> errs = {}
         /\ promises[h].state = "resolved" => promises[h].value = <<>>
         /\ promises[h].state = "rejected" => errs \subseteq Range(promises[h].value)

\* a promise was rejected with the errors of two different jobs
C5_Witness ==
  \E h \in DOMAIN promises :
    /\ promises[h].state = "rejected"
    /\ \E e1, e2 \in Range(promises[h].value) : e1.fn # e2.fn

\* No epoch is open: no job was ever submitted, or the last promise created
\* has been settled and add has not been called since.
NoEpochOpen == promises = <<>> \/ Last(promises).state # "pending"

\* C6 (as claimed): yield() called while no epoch is open does not return null.
C6_Claim == NoEpochOpen => yield(D) # Null

\* C7: a job submitted from inside a running job belongs to the epoch of that
\* job: add created no promise for it, and the promise of that epoch is not
\* settled while the child is waiting or pending.
C7_ChildInParentEpoch ==
  \A y \in Jobs :
    parent[y] # 0 =>
      /\ epoch[y] # Null
      /\ epoch[y] = epoch[parent[y]]
      /\ promises[epoch[y]].state # "pending" => ~Waiting(y) /\ ~Pending(y)

\* under limit 1 a child had to wait for its parent's slot, ran, and the
\* promise of their epoch was settled afterwards
C7_Witness ==
  /\ limit = 1
  /\ \E y \in Jobs :
       /\ parent[y] # 0
       /\ calls[y] = 1
       /\ promises[epoch[y]].state = "resolved"

\* Job n fails with an error for which shouldRetry is false.
NonRetriable(n) ==
  \/ added[n] = "errN"
  \/ added[n] \in {"hang", "late", "abort"} /\ ~shouldRetryTimeout

\* The first attempt of job n has been reported to the dispatcher.
Reported(n) ==
  /\ calls[n] >= 1
  /\ ~\E p \in inflight : p.fn = n /\ TimerLive(p)

\* C8: a job whose error is not retriable is invoked once, and its error is
\* in the error list as soon as the attempt has been reported.
C8_NonRetriableOnce ==
  \A n \in Jobs :
    NonRetriable(n) =>
      /\ calls[n] <= 1
      /\ Reported(n) => Recorded(n)

\* with retries allowed, an application error and a timeout that shouldRetry
\* refuses have both been recorded after one invocation each
C8_Witness ==
  /\ retryLimit = 2
  /\ ~shouldRetryTimeout
  /\ \E m, n \in Jobs :
       /\ added[m] = "errN" /\ added[n] = "hang"
       /\ Reported(m) /\ Reported(n)
       /\ calls[m] = 1 /\ calls[n] = 1

\* The scenario of C9: limit 2, retry 1, and J1 (succeeds), J2 (fails
\* retriably, then succeeds), J3 (succeeds) submitted in this order.
Scenario9 == limit = 2 /\ retryLimit = 1 /\ added = <<"ok", "flaky", "ok">>

\* C9 (as claimed): in the scenario the error list stays empty, at most two
\* jobs are pending, and when everything has finished J2 has run twice and
\* the promise is resolved.
C9_Claim ==
  Scenario9 =>
    /\ yieldErrors = <<>>
    /\ pendingJobsCount(D) <= 2
    /\ Quiescent => calls[2] = 2 /\ promises[1].state = "resolved"

\* C10: a promise is settled only by a step that ends with nothing waiting
\* and nothing pending.
C10_SettledOnlyWhenDrained ==
  [][\A h \in DOMAIN promises :
       (promises[h].state = "pending" /\ promises'[h].state # "pending") =>
         (waitingJobs' = <<>> /\ DOMAIN pendingJobs' = {})]_vars

\* under limit 1 three jobs went through the queue before the promise settled
C10_Witness ==
  /\ limit = 1
  /\ Len(added) = 3
  /\ \A n \in Jobs : epoch[n] = 1 /\ calls[n] >= 1
  /\ promises[1].state # "pending"
  /\ \E n \in Jobs : added[n] # "ok"

\* The error list of epoch h: the list being filled while the epoch is open,
\* the value of its promise afterwards.
ErrorList(h) == IF yieldPromise = h THEN yieldErrors ELSE promises[h].value

\* The position of error e in list s (0 if it is not in it).
IndexOf(s, e) ==
  IF \E i \in DOMAIN s : s[i] = e THEN CHOOSE i \in DOMAIN s : s[i] = e ELSE 0

C12_AdmittedInSubmissionOrder ==
  [][\A n \in Range(waitingJobs) :
       n \notin Range(waitingJobs') => \A m \in Range(waitingJobs) : n <= m]_vars

\* under limit 1 the first job is done, the second one holds the slot and
\* the third one is still waiting
C12_Witness ==
  /\ limit = 1
  /\ calls[1] >= 1 /\ ~Pending(1)
  /\ Pending(2)
  /\ waitingJobs = <<3>>

\* The dispatcher has no waiting and no pending job.
Idle == waitingJobs = <<>> /\ DOMAIN pendingJobs = {}

\* C13: add on an idle dispatcher creates a fresh promise and empties the
\* error list, add on a busy one leaves both alone; the step that settles a
\* promise clears both; and a promise is rejected only with errors recorded
\* during its own epoch.
C13_EpochsAreSeparate ==
  [][/\ Len(added') > Len(added) =>
          IF Idle
            THEN /\ Len(promises') = Len(promises) + 1
                 /\ yieldPromise' = Len(promises')
                 /\ yieldPromise' \notin DOMAIN promises
                 /\ promises'[yieldPromise'].state = "pending"
                 /\ yieldErrors' = <<>>
            ELSE /\ promises' = promises
                 /\ yieldPromise' = yieldPromise
                 /\ yieldErrors' = yieldErrors
     /\ (yieldPromise # Null /\ promises'[yieldPromise].state # "pending") =>
          (yieldPromise' = Null /\ yieldErrors' = <<>>)
     /\ \A h \in DOMAIN promises' :
          \A e \in Range(promises'[h].value) :
            \E f \in failures' : f.err = e /\ f.epoch = h]_vars

\* the first epoch ended with a rejection, the next add opened a second one
\* and the add after it joined that one
C13_Witness ==
  /\ epoch = <<1, 2, 2>>
  /\ promises[1].state = "rejected"
  /\ promises[2].state = "pending"

\* C14 (as claimed): the step in which an error is not retried appends it to
\* the error list, removes the job's record from the pending set and admits
\* a waiting job, if there is one, into the freed slot.
C14_Claim ==
  [][\A f \in failures' \ failures :
       /\ f.err \in Range(yieldErrors') \/ f.err \in Range(promises'[f.epoch].value)
       /\ f.err.id \notin DOMAIN pendingJobs'
       /\ waitingJobs # <<>> => Len(waitingJobs') = Len(waitingJobs) - 1]_vars

\* C15 (as claimed): the result of an attempt whose timeout has already fired
\* changes nothing in the dispatcher: no record is removed, no timer is
\* cancelled, no job function is invoked again and no error is appended.
C15_Claim ==
  [][\A p \in inflight :
       (p.aborted /\ p \notin inflight') =>
         /\ pendingJobs' = pendingJobs
         /\ timers' = timers
         /\ calls' = calls
         /\ yieldErrors' = yieldErrors]_vars

\* C16: a step that invokes the function of a job again (a retry) keeps the
\* job's record under the same id with its attempt count one higher, gives it
\* a new timer and a new cancellation token, and leaves the set of pending
\* ids, the other records, the waiting queue, the id counter, the error list
\* and the promise of the epoch as they were.
C16_RetryReusesRecord ==
  [][\A n \in Jobs :
       (calls[n] >= 1 /\ calls'[n] # calls[n]) =>
         \E id \in DOMAIN pendingJobs :
           /\ pendingJobs[id].fn = n
           /\ calls'[n] = calls[n] + 1
           /\ DOMAIN pendingJobs' = DOMAIN pendingJobs
           /\ \A j \in DOMAIN pendingJobs \ {id} : pendingJobs'[j] = pendingJobs[j]
           /\ pendingJobs'[id].fn = n /\ pendingJobs'[id].id = id
           /\ pendingJobs'[id].retry = pendingJobs[id].retry + 1
           /\ pendingJobs'[id].timeoutId # pendingJobs[id].timeoutId
           /\ [id |-> id, attempt |-> pendingJobs'[id].timeoutId] \in timers' \ timers
           /\ [id |-> id, attempt |-> pendingJobs[id].timeoutId] \notin timers'
           /\ pendingJobs'[id].abortController # pendingJobs[id].abortController
           /\ \E q \in inflight' \ inflight :
                /\ q.id = id /\ q.attempt = pendingJobs'[id].abortController
                /\ ~q.aborted
           /\ waitingJobs' = waitingJobs
           /\ jobIdCounter' = jobIdCounter
           /\ yieldErrors' = yieldErrors
           /\ yieldPromise' = yieldPromise
           /\ promises' = promises]_vars

\* under limit 1 the first job is on its second attempt and the two jobs
\* added after it still wait
C16_Witness ==
  /\ limit = 1
  /\ \E id \in DOMAIN pendingJobs : pendingJobs[id].retry = 2 /\ pendingJobs[id].fn = 1
  /\ calls[1] = 2
  /\ Len(waitingJobs) = 2
  /\ yieldErrors = <<>>

\* C17: whenever a job is waiting, the number of pending records equals limit.
C17_WaitingOnlyWhenFull ==
  waitingJobsCount(D) > 0 => pendingJobsCount(D) = limit

\* both slots of limit 2 are taken, one of them by a job whose error was not
\* retried, and a third job waits
C17_Witness ==
  /\ limit = 2
  /\ pendingJobsCount(D) = 2
  /\ waitingJobsCount(D) = 1
  /\ \E e \in Range(yieldErrors) : e.id \in DOMAIN pendingJobs

\* C18: a promise of the epoch exists exactly when a job is waiting or
\* pending; as long as the epoch is open yield() returns the same handle; and
\* a promise that is settled never changes again.
C18_OneBarrierPerEpoch ==
  /\ [](yieldPromise # Null <=> ~Idle)
  /\ [][/\ (yield(D) # Null /\ yield(D)' # Null) => yield(D)' = yield(D)
        /\ (~Idle /\ ~Idle') => yield(D)' = yield(D)
        /\ \A h \in DOMAIN promises :
             /\ h \in DOMAIN promises'
             /\ promises[h].state # "pending" => promises'[h] = promises[h]]_vars

\* the first epoch was settled as resolved; in the second one a job runs and
\* another waits, both under the second promise
C18_Witness ==
  /\ limit = 1
  /\ epoch = <<1, 2, 2>>
  /\ promises[1].state = "resolved"
  /\ yield(D) = 2 /\ promises[2].state = "pending"
  /\ waitingJobs = <<3>>

\* C19: the attempt counter of every pending record is at least 1 and at
\* most retryLimit + 1.
C19_AttemptsBounded ==
  \A id \in DOMAIN pendingJobs :
    /\ 1 <= pendingJobs[id].retry
    /\ pendingJobs[id].retry <= retryLimit + 1

\* a job whose attempts time out and reject late has made its last attempt
\* and has an error in the list, next to a job on its first attempt
C19_Witness ==
  /\ limit = 2
  /\ retryLimit = 2
  /\ \E id \in DOMAIN pendingJobs :
       /\ pendingJobs[id].retry = retryLimit
       /\ added[pendingJobs[id].fn] = "abort"
       /\ \E e \in Range(yieldErrors) : e.id = id
  /\ \E id \in DOMAIN pendingJobs : pendingJobs[id].retry = 1

\* C20 (as claimed): a report for a job id that has no pending record leaves
\* the pending set, the waiting queue, the error list and the promise of the
\* epoch unchanged, and the error it raises is fatal: the program takes no
\* further step once the error has been raised.
C20_Claim ==
  [][/\ (~unhandled /\ unhandled') =>
          /\ pendingJobs' = pendingJobs
          /\ waitingJobs' = waitingJobs
          /\ yieldErrors' = yieldErrors
          /\ yieldPromise' = yieldPromise
          /\ promises' = promises
     /\ ~unhandled]_vars

\* C21: every live timer belongs to a pending record and is the timer of that
\* record's current attempt, so a record has at most one; and once the
\* promise of an attempt has been handled, the timer of that attempt is not
\* live.
C21_TimersOfPendingAttemptsOnly ==
  /\ [](\A t \in timers :
          /\ t.id \in DOMAIN pendingJobs
          /\ t.attempt = pendingJobs[t.id].timeoutId
          /\ t.attempt = pendingJobs[t.id].retry)
  /\ [][\A p \in inflight :
          (~\E q \in inflight' : q.id = p.id /\ q.attempt = p.attempt) =>
            [id |-> p.id, attempt |-> p.attempt] \notin timers']_vars

\* one job has succeeded and left no timer behind; the other is on its second
\* attempt and the only live timer is the one of that attempt
C21_Witness ==
  /\ \E n \in Jobs : added[n] = "ok" /\ calls[n] = 1 /\ ~Pending(n) /\ ~Waiting(n)
  /\ \E id \in DOMAIN pendingJobs :
       /\ pendingJobs[id].retry = 2
       /\ timers = {[id |-> id, attempt |-> 2]}

\* The promise of attempt a of record id has not been handled yet.
Running(S, id, a) == \E p \in S : p.id = id /\ p.attempt = a

\* C22: an attempt starts with a token that no earlier attempt of the record
\* had and that is not aborted; the step in which the timer of an attempt
\* fires aborts the token of that attempt, with a timeout error that names the
\* record's id and its attempt count of that moment, whether the attempt is
\* retried or not; and a token is aborted only by the timer of its own attempt.
C22_TokenPerAttempt ==
  [][/\ \A q \in inflight' :
          ~Running(inflight, q.id, q.attempt) =>
            /\ ~q.aborted /\ q.reason = <<>>
            /\ pendingJobs'[q.id].abortController = q.attempt
            /\ \A p \in inflight : p.id = q.id => p.attempt < q.attempt
            /\ q.id \in DOMAIN pendingJobs =>
                 pendingJobs[q.id].abortController # q.attempt
     /\ \A t \in timers \ timers' :
          (\A p \in inflight : Running(inflight', p.id, p.attempt)) =>
            \E q \in inflight' :
              /\ q.id = t.id /\ q.attempt = t.attempt
              /\ q.aborted
              /\ q.reason = <<[kind |-> "timeout", fn |-> q.fn, id |-> t.id,
                               attempt |-> pendingJobs[t.id].retry]>>
              /\ pendingJobs[t.id].retry = t.attempt
     /\ \A p \in inflight : \A q \in inflight' :
          (q.id = p.id /\ q.attempt = p.attempt /\ q.aborted /\ ~p.aborted) =>
            /\ [id |-> p.id, attempt |-> p.attempt] \in timers \ timers'
            /\ q.reason # <<>>]_vars

\* the first attempt of a job was aborted by its timeout and has not settled;
\* the second attempt of the same record runs with a token that is not aborted
C22_Witness ==
  \E p, q \in inflight :
    /\ p.id = q.id /\ p.attempt = 1 /\ q.attempt = 2
    /\ p.aborted /\ p.reason # <<>> /\ p.reason[1].attempt = 1
    /\ ~q.aborted
    /\ pendingJobs[q.id].abortController = 2

\* The job ids that occur anywhere in the state, with the job they stand for.
IdsInUse ==
  {<<pendingJobs[i].id, pendingJobs[i].fn>> : i \in DOMAIN pendingJobs}
    \cup {<<p.id, p.fn>> : p \in inflight}
    \cup {<<f.err.id, f.err.fn>> : f \in failures}

\* C23: an id stands for one job only and every id in use is below the
\* counter; the step that admits a job gives it the value of the counter as
\* its id, an id that no record has, and moves the counter up by one; the
\* counter never goes down.
C23_IdsAreUnique ==
  /\ [](/\ \A x, y \in IdsInUse : x[1] = y[1] => x[2] = y[2]
        /\ \A x \in IdsInUse : x[1] < jobIdCounter
        /\ \A i \in DOMAIN pendingJobs : pendingJobs[i].id = i
        /\ \A i, j \in DOMAIN pendingJobs :
             pendingJobs[i].fn = pendingJobs[j].fn => i = j)
  /\ [][/\ jobIdCounter' >= jobIdCounter
        /\ \A n \in 1..Len(added') :
             (calls[n] = 0 /\ calls'[n] > 0) =>
               /\ jobIdCounter \notin DOMAIN pendingJobs
               /\ jobIdCounter \in DOMAIN pendingJobs'
               /\ pendingJobs'[jobIdCounter].fn = n
               /\ jobIdCounter' = jobIdCounter + 1
               /\ \A x \in IdsInUse : x[1] < jobIdCounter]_vars

\* three jobs were admitted under limit 2 with the ids 0, 1 and 2; the first
\* has succeeded and the other two are pending
C23_Witness ==
  /\ limit = 2
  /\ jobIdCounter = 3
  /\ DOMAIN pendingJobs = {1, 2}
  /\ pendingJobs[1].fn = 2 /\ pendingJobs[2].fn = 3
  /\ calls[1] = 1 /\ added[1] = "ok"

\* Job n has a success reported (resolve is the only code that deletes a
\* record), or has an error that was not retried.
Succeeded(n) == calls[n] >= 1 /\ ~Pending(n)
Failed(n) == \E f \in failures : f.err.fn = n
Finished(n) == Succeeded(n) \/ Failed(n)

\* C24 (as claimed): every job passed to add is in exactly one place, the
\* waiting queue, the pending set or finished (succeeded, or failed with an
\* error that was not retried), so the three counts add up to the number of
\* jobs added.
C24_Claim ==
  /\ \A n \in Jobs :
       /\ Waiting(n) \/ Pending(n) \/ Finished(n)
       /\ ~(Waiting(n) /\ Pending(n))
       /\ ~(Waiting(n) /\ Finished(n))
       /\ ~(Pending(n) /\ Finished(n))
  /\ Len(added) = waitingJobsCount(D) + pendingJobsCount(D)
                    + Cardinality({n \in Jobs : Finished(n)})

\* A job of the first phase is neither waiting nor pending any more.
Retired(n) == ~Waiting(n) /\ ~Pending(n)

\* C25 (as claimed): while a job of the second phase exists (submitted,
\* started or done), every job of the first phase has left the dispatcher;
\* and the lintbot function has returned 0 only if the promise of the second
\* phase is resolved.
C25_Claim ==
  /\ \A n, m \in Jobs : (Phase(n) = 2 /\ Phase(m) = 1) => Retired(m)
  /\ pc = "returned" => promises[Awaited].state = "resolved"

====
